---- MODULE Spec2Model ----
(***************************************************************************)
(* Cox-Ross-Rubinstein binomial option pricer.                             *)
(*                                                                         *)
(*   src/binomial_option_pricing_model.py  BinomialOptionPricing.run       *)
(*   src/binomial_option_pricing_app.py    BinomialOptionPricing           *)
(*                                           .calculate_prices,            *)
(*                                         plot_heatmap                    *)
(*                                                                         *)
(* Numbers.  The code computes in numpy float64.  The model computes the   *)
(* real value of every number, on the values float64 distinguishes in kind:*)
(*   [k |-> "q",   n, d, e] the rational n/d (d > 0, lowest terms), and    *)
(*                         the rounding residue e: the float64 value is    *)
(*                         n/d + e * 2^(E - 54), E = floor(log2 |n/d|),    *)
(*                         that is e quarters of the unit in the last      *)
(*                         place of n/d                                    *)
(*   [k |-> "inf", n]      +infinity (n = 1) or -infinity (n = -1)         *)
(*   [k |-> "nan"]         not-a-number                                    *)
(*   [k |-> "ln",  n, d, e] the real e * ln(n/d): volatility and           *)
(*                         interest_rate are logarithms of rationals, so   *)
(*                         that exp() of the products the code forms is a  *)
(*                         rational the model can compute exactly          *)
(*   [k |-> "unset"]       an attribute the object does not have yet       *)
(* Division by zero, sqrt of a negative number and arithmetic on inf/nan   *)
(* follow numpy (a value and a RuntimeWarning, never an exception);        *)
(* Python's own float / int division raises ZeroDivisionError.             *)
(*                                                                         *)
(* Rounding.  A float64 operation returns the real result rounded to the   *)
(* nearest float64, ties to the even significand.  The lattice values are  *)
(* carried as their real values (the float64 values lie within about 1e-9  *)
(* relative of them), with residue 0.  Where the code derives one stored   *)
(* result from another by a further float64 operation, put_delta = 1 -     *)
(* delta, the relation between the two stored floats depends on how that   *)
(* subtraction rounds.  Its error is at most half a unit in the last place *)
(* of the result and a multiple of the unit in the last place of delta;    *)
(* the model keeps its class: 0 exact, 1 up to a quarter unit, 2 above a   *)
(* quarter and up to half a unit, with the sign of the direction.  The     *)
(* class is the variable rounding, any class the two binades allow, fixed  *)
(* for the object because float64 arithmetic is deterministic.  + and -    *)
(* on a number with a residue round again, to the float64 nearest the real *)
(* sum plus the residues: (1 - delta) + delta is 1.0 when the residue is   *)
(* absorbed by that rounding and a neighbour of 1.0 when it is not.        *)
(* Overflow of float64 is not modelled.                                    *)
(***************************************************************************)
EXTENDS Integers, Sequences, FiniteSets, TLC

VARIABLES
    self,           \* the object's attributes: six inputs, six outputs
    loc,            \* run()'s scalar locals: dt, u, d, q, call_price, put_price, delta, gamma
    option_prices,  \* run()'s local array (index k of the code is k+1 here)
    j, i,           \* the positions of the two nested loops of the running pass
    pc,             \* where run() is
    err,            \* the exception run() raised, or "none"
    calls,          \* how many times run() has been invoked on the object
    params0,        \* history: the six inputs as the constructor stored them
    first,          \* history: the six outputs of the first completed run()
    grid,           \* plot_heatmap: call_prices and put_prices, vol_range, spot_range, strike
    filled,         \* plot_heatmap: the cells computed so far
    rounding        \* how float64 rounds 1 - delta for this object: a class in -2..2

vars == <<self, loc, option_prices, j, i, pc, err, calls, params0, first, grid, filled,
          rounding>>

(***************************************************************************)
(* Bounds of the model.                                                    *)
(***************************************************************************)
MaxSteps == 3
MaxQuarters == 4
MaxCalls == 2

-----------------------------------------------------------------------------
(***************************************************************************)
(* Numbers                                                                 *)
(***************************************************************************)
Abs(x) == IF x < 0 THEN -x ELSE x

RECURSIVE GCD(_, _)
GCD(a, b) == IF b = 0 THEN a ELSE GCD(b, a % b)

NaN == [k |-> "nan", n |-> 0, d |-> 0, e |-> 0]
Inf(s) == [k |-> "inf", n |-> s, d |-> 0, e |-> 0]
Unset == [k |-> "unset", n |-> 0, d |-> 0, e |-> 0]

\* the rational nn/dd, dd # 0, in lowest terms with a positive denominator
Rat(nn, dd) ==
    LET g == GCD(Abs(nn), Abs(dd))
        s == IF dd < 0 THEN -1 ELSE 1
    IN  [k |-> "q", n |-> s * (nn \div g), d |-> s * (dd \div g), e |-> 0]

Int2Num(x) == Rat(x, 1)

\* the real ee * ln(nn/dd)
Ln(nn, dd, ee) == [k |-> "ln", n |-> nn, d |-> dd, e |-> ee]

IsNaN(x) == x.k = "nan"
IsInf(x) == x.k = "inf"
IsRat(x) == x.k = "q"

\* the rational x with the rounding residue r
WithRes(x, r) == IF IsRat(x) THEN [x EXCEPT !.e = r] ELSE x

\* -1, 0 or 1 for a rational (a zero real value has the sign of its residue)
\* or an infinity
Sign(x) ==
    IF x.n > 0 THEN 1
    ELSE IF x.n < 0 THEN -1
    ELSE IF IsRat(x) /\ x.e > 0 THEN 1
    ELSE IF IsRat(x) /\ x.e < 0 THEN -1
    ELSE 0

Neg(x) ==
    CASE IsNaN(x) -> NaN
      [] IsInf(x) -> Inf(-x.n)
      [] x.k = "ln" -> Ln(x.n, x.d, -x.e)
      [] OTHER -> WithRes(Rat(-x.n, x.d), -x.e)

\* floor(log2(nn/dd)) for nn > 0, dd > 0
RECURSIVE FloorLog2(_, _)
FloorLog2(nn, dd) ==
    IF nn >= 2 * dd THEN FloorLog2(nn, 2 * dd) + 1
    ELSE IF nn < dd THEN FloorLog2(2 * nn, dd) - 1
    ELSE 0

\* the binary exponent of a rational x # 0: its binade is [2^E, 2^(E+1))
Exponent(x) == FloorLog2(Abs(x.n), x.d)

RECURSIVE IsPow2(_)
IsPow2(m) == m = 1 \/ (m > 1 /\ m % 2 = 0 /\ IsPow2(m \div 2))

\* whether the rational x is +-2^k: the floats just below |x| are spaced half
\* as far apart as those above
IsPowerOfTwo(x) == (Abs(x.n) = 1 /\ IsPow2(x.d)) \/ (x.d = 1 /\ IsPow2(Abs(x.n)))

Min(a, b) == IF a < b THEN a ELSE b

\* Round to nearest, ties to even: the residue (in quarter units of v) of the
\* float64 nearest to v + dI units, where v is a float64 with an even
\* significand and a quarter of its unit in the last place is q units.
RoundRes(v, dI, q) ==
    LET m == IF v.n > 0 THEN dI ELSE -dI
        st == IF m < 0 /\ IsPowerOfTwo(v) THEN 2 * q ELSE 4 * q
        a == Abs(m)
        k0 == a \div st
        rem == a % st
        k == IF 2 * rem > st \/ (2 * rem = st /\ k0 % 2 = 1) THEN k0 + 1 ELSE k0
        mm == IF m < 0 THEN -(k * st) ELSE k * st
    IN  (IF v.n > 0 THEN mm ELSE -mm) \div q

\* float64 +.  On numbers without residue, the real sum.  With a residue: x + 0
\* is x; a real sum of 0 leaves the residues alone (the difference of two
\* nearby floats is exact); otherwise the sum is rounded again, to the
\* float64 grid around the real sum when that is a dyadic rational.
Add(x, y) ==
    CASE IsNaN(x) \/ IsNaN(y) -> NaN
      [] IsInf(x) /\ IsInf(y) -> IF x.n = y.n THEN x ELSE NaN
      [] IsInf(x) -> x
      [] IsInf(y) -> y
      [] OTHER ->
            LET g == GCD(x.d, y.d)
                v == Rat(x.n * (y.d \div g) + y.n * (x.d \div g), (x.d \div g) * y.d)
            IN  IF x.e = 0 /\ y.e = 0 THEN v
                ELSE IF x.n = 0 /\ x.e = 0 THEN y
                ELSE IF y.n = 0 /\ y.e = 0 THEN x
                ELSE IF v.n = 0 \/ x.n = 0 \/ y.n = 0 THEN WithRes(v, x.e + y.e)
                ELSE LET ev == Exponent(v)
                         ex == Exponent(x)
                         ey == Exponent(y)
                         lo == Min(ev, Min(ex, ey))
                         dI == x.e * 2^(ex - lo) + y.e * 2^(ey - lo)
                         q == 2^(ev - lo)
                     IN  IF IsPow2(v.d)
                         THEN WithRes(v, RoundRes(v, dI, q))
                         ELSE WithRes(v, (IF dI < 0 THEN -1 ELSE 1) * (Abs(dI) \div q))

Sub(x, y) == Add(x, Neg(y))

Mul(x, y) ==
    CASE IsNaN(x) \/ IsNaN(y) -> NaN
      [] IsInf(x) \/ IsInf(y) ->
            IF Sign(x) * Sign(y) = 0 THEN NaN ELSE Inf(Sign(x) * Sign(y))
      [] OTHER ->
            LET g1 == GCD(Abs(x.n), y.d)
                g2 == GCD(Abs(y.n), x.d)
            IN  WithRes(Rat((x.n \div g1) * (y.n \div g2),
                            (x.d \div g2) * (y.d \div g1)),
                        Sign(x) * y.e + Sign(y) * x.e)

\* numpy's true division: a zero divisor yields inf or nan, never an exception
Div(x, y) ==
    CASE IsNaN(x) \/ IsNaN(y) -> NaN
      [] IsInf(y) -> IF IsInf(x) THEN NaN ELSE Int2Num(0)
      [] IsInf(x) -> Inf(x.n * (IF y.n < 0 THEN -1 ELSE 1))
      [] y.n = 0 -> IF x.n = 0 THEN NaN ELSE Inf(Sign(x))
      [] OTHER -> Mul(x, WithRes(Rat(y.d, y.n), -y.e))

\* Python's and numpy's comparisons: every comparison with nan is False
Gt(x, y) == ~IsNaN(x) /\ ~IsNaN(y) /\ x # y /\ Sign(Sub(x, y)) > 0
Ge(x, y) == ~IsNaN(x) /\ ~IsNaN(y) /\ (x = y \/ Sign(Sub(x, y)) > 0)
Eq(x, y) == ~IsNaN(x) /\ ~IsNaN(y) /\ x = y

\* x ** m for an integer m >= 0 (x ** 0 is 1.0 for every x, nan included)
RECURSIVE Pow(_, _)
Pow(x, m) == IF m = 0 THEN Int2Num(1) ELSE Mul(x, Pow(x, m - 1))

\* Python's max(0, x): x when x > 0, else 0 (so 0 when x is nan)
Max0(x) == IF Gt(x, Int2Num(0)) THEN x ELSE Int2Num(0)

\* the exact root of a perfect square
IntRoot(m) == CHOOSE r \in 0..m : r * r = m

IsSquare(m) == \E r \in 0..m : r * r = m

\* np.sqrt: nan for a negative argument
Sqrt(x) ==
    CASE IsNaN(x) -> NaN
      [] IsInf(x) -> IF x.n > 0 THEN x ELSE NaN
      [] x.n < 0 -> NaN
      [] OTHER -> Rat(IntRoot(x.n), IntRoot(x.d))

\* the product of a logarithm e*ln(b) and a number r (a rational with e*r an
\* integer, an infinity or nan)
Scale(x, r) ==
    CASE IsNaN(r) -> NaN
      [] IsInf(r) -> IF x.e = 0 \/ x.n = x.d THEN NaN
                     ELSE Inf(r.n * (IF (x.e > 0) = (x.n > x.d) THEN 1 ELSE -1))
      [] OTHER -> Ln(x.n, x.d, (x.e * r.n) \div r.d)

\* whether Scale(x, r) is exact for the rational r
Scales(x, r) == (x.e * r.n) % r.d = 0

\* np.exp of e*ln(n/d): (n/d)^e, the reciprocal's power when e < 0
Exp(x) ==
    CASE IsNaN(x) -> NaN
      [] IsInf(x) -> IF x.n > 0 THEN x ELSE Int2Num(0)
      [] x.e >= 0 -> Pow(Rat(x.n, x.d), x.e)
      [] OTHER -> Pow(Rat(x.d, x.n), -x.e)

\* whether the logarithm e*ln(n/d) is > 0, = 0
LnPos(x) == (x.e > 0 /\ x.n > x.d) \/ (x.e < 0 /\ x.n < x.d)
LnZero(x) == x.e = 0 \/ x.n = x.d

At(arr, k) == arr[k + 1]

-----------------------------------------------------------------------------
(***************************************************************************)
(* The inputs the model draws from.                                        *)
(***************************************************************************)
StepsRange == (-2)..MaxSteps
Strikes == {90, 100}
Spots == {100, 120}
\* 0, 2 ln 2 (1.386), 2 ln(3/2) (0.811)
Vols == {Ln(2, 1, 0), Ln(2, 1, 2), Ln(3, 2, 2)}
\* 0, 4 ln(3/2) (1.622), 4 ln 2 (2.773), -4 ln 2
Rates == {Ln(2, 1, 0), Ln(3, 2, 4), Ln(2, 1, 4), Ln(2, 1, -4)}

\* The inputs on which the model's arithmetic is exact: dt = time_to_maturity /
\* steps is the square of a rational, and the arguments of exp are integer
\* multiples of the logarithms.
ExactDt(p) ==
    p.steps # 0 =>
        LET dt == Div(p.time_to_maturity, Int2Num(p.steps))
        IN  /\ Scales(p.interest_rate, dt)
            /\ p.steps > 0 => /\ IsSquare(dt.n) /\ IsSquare(dt.d)
                              /\ Scales(p.volatility, Sqrt(dt))

Inputs ==
    { [time_to_maturity |-> Rat(T, 4), strike |-> Int2Num(K),
       current_price |-> Int2Num(S), volatility |-> v, interest_rate |-> r,
       steps |-> n] :
        T \in 1..MaxQuarters, K \in Strikes, S \in Spots, v \in Vols, r \in Rates,
        n \in StepsRange }

ValidInputs == { p \in Inputs : ExactDt(p) }

NoOutputs ==
    [call_price |-> Unset, put_price |-> Unset, call_delta |-> Unset,
     put_delta |-> Unset, call_gamma |-> Unset, put_gamma |-> Unset]

InputsOf(o) ==
    [time_to_maturity |-> o.time_to_maturity, strike |-> o.strike,
     current_price |-> o.current_price, volatility |-> o.volatility,
     interest_rate |-> o.interest_rate, steps |-> o.steps]

OutputsOf(o) ==
    [call_price |-> o.call_price, put_price |-> o.put_price,
     call_delta |-> o.call_delta, put_delta |-> o.put_delta,
     call_gamma |-> o.call_gamma, put_gamma |-> o.put_gamma]

\* BinomialOptionPricing.__init__: the six inputs stored, no output attribute yet
Construct(p) == p @@ NoOutputs

NoError == [type |-> "none", line |-> 0]
Raise(t, l) == [type |-> t, line |-> l]

\* the locals of a fresh frame of run(): the six copies of lines 21-26, the rest unbound
Frame(o) ==
    [time_to_maturity |-> o.time_to_maturity, strike |-> o.strike,
     current_price |-> o.current_price, volatility |-> o.volatility,
     interest_rate |-> o.interest_rate, steps |-> o.steps,
     dt |-> Unset, u |-> Unset, d |-> Unset, q |-> Unset,
     call_price |-> Unset, put_price |-> Unset, delta |-> Unset, gamma |-> Unset,
     allocs |-> 0]

NoFrame == Frame(Construct([time_to_maturity |-> Unset, strike |-> Unset,
                            current_price |-> Unset, volatility |-> Unset,
                            interest_rate |-> Unset, steps |-> 0]))

-----------------------------------------------------------------------------
(***************************************************************************)
(* The pieces of run() / calculate_prices()                                *)
(***************************************************************************)
\* dt = time_to_maturity / steps, for steps # 0
TimeStep(T, steps) == Div(T, Int2Num(steps))

\* u = np.exp(volatility * np.sqrt(dt))
UpFactor(volatility, dt) == Exp(Scale(volatility, Sqrt(dt)))

\* d = 1 / u
DownFactor(u) == Div(Int2Num(1), u)

\* q = (np.exp(interest_rate * dt) - d) / (u - d)
RiskNeutral(interest_rate, dt, u, d) ==
    Div(Sub(Exp(Scale(interest_rate, dt)), d), Sub(u, d))

\* the sign of the exponent lost: np.exp(interest_rate * dt)
DiscountGrowth(interest_rate, dt) == Exp(Scale(interest_rate, dt))

\* np.exp(-interest_rate * dt)
Discount(interest_rate, dt) == Exp(Scale(Neg(interest_rate), dt))

\* np.zeros(m), m >= 0
Zeros(m) == [k \in 1..m |-> Int2Num(0)]

\* current_price * (u ** k) * (d ** (steps - k))
NodePrice(f, k) == Mul(Mul(f.current_price, Pow(f.u, k)), Pow(f.d, f.steps - k))

CallPayoff(f, k) == Max0(Sub(NodePrice(f, k), f.strike))

\* a put payoff without the floor at 0
PutPayoffNoFloor(f, k) == Sub(f.strike, NodePrice(f, k))

PutPayoff(f, k) == Max0(Sub(f.strike, NodePrice(f, k)))

\* for i in range(steps + 1): option_prices[i] = max(0, ...)
FillCall(arr, f) ==
    [k \in 1..Len(arr) |-> IF k - 1 \in 0..f.steps THEN CallPayoff(f, k - 1) ELSE arr[k]]

FillPut(arr, f) ==
    [k \in 1..Len(arr) |-> IF k - 1 \in 0..f.steps THEN PutPayoff(f, k - 1) ELSE arr[k]]

\* the two weights exchanged: q on option_prices[i], 1-q on option_prices[i+1]
InductionStepSwapped(arr, f, ii) ==
    [arr EXCEPT ![ii + 1] =
        Mul(Discount(f.interest_rate, f.dt),
            Add(Mul(f.q, At(arr, ii)),
                Mul(Sub(Int2Num(1), f.q), At(arr, ii + 1))))]

\* option_prices[i] = np.exp(-interest_rate*dt) * (q*option_prices[i+1] + (1-q)*option_prices[i])
InductionStep(arr, f, ii) ==
    [arr EXCEPT ![ii + 1] =
        Mul(Discount(f.interest_rate, f.dt),
            Add(Mul(f.q, At(arr, ii + 1)),
                Mul(Sub(Int2Num(1), f.q), At(arr, ii))))]

\* delta = (option_prices[1] - option_prices[0]) / (current_price*u - current_price*d)
Spread(f) == Sub(Mul(f.current_price, f.u), Mul(f.current_price, f.d))

\* the difference taken the other way round: option_prices[0] - option_prices[1]
DeltaReversed(arr, f) == Div(Sub(At(arr, 0), At(arr, 1)), Spread(f))

Delta(arr, f) == Div(Sub(At(arr, 1), At(arr, 0)), Spread(f))

\* gamma = (option_prices[2] - 2*option_prices[1] + option_prices[0]) / (0.5 * (...) ** 2)
Gamma(arr, f) ==
    Div(Add(Sub(At(arr, 2), Mul(Int2Num(2), At(arr, 1))), At(arr, 0)),
        Mul(Rat(1, 2), Pow(Spread(f), 2)))

\* the classes of the rounding error of a float64 operation, in quarters of
\* the unit in the last place of the result: 0 exact, 1 up to a quarter, 2
\* above a quarter and up to a half; negative when rounded down
Roundings == (-2)..2

\* the classes 1 - delta can round in: the error is a multiple of the unit in
\* the last place of delta, which is 2^(Exponent(delta) - Exponent(1 - delta)
\* + 2) quarters of that of the result
RoundingsOf(delta) ==
    LET diff == Add(Int2Num(1), Neg(delta))
    IN  IF diff.n = 0 THEN {0}
        ELSE LET t == Exponent(delta) - Exponent(diff) + 2
             IN  IF t >= 2 THEN {0}
                 ELSE IF t = 1 THEN {-2, 0, 2}
                 ELSE Roundings

\* the class r where 1 - delta can round so, exact otherwise
RoundingAt(delta, r) == IF r \in RoundingsOf(delta) THEN r ELSE 0

\* put_delta = delta - 1, the put's delta of the textbooks
PutDeltaMinusOne(delta, r) ==
    IF IsRat(delta) /\ delta.n # 0
    THEN WithRes(Sub(delta, Int2Num(1)), RoundingAt(delta, r))
    ELSE Sub(delta, Int2Num(1))

\* self.put_delta = 1 - delta: the difference rounded to a float64 (exact when
\* delta is 0, inf or nan)
PutDelta(delta, r) ==
    IF IsRat(delta) /\ delta.n # 0
    THEN WithRes(Sub(Int2Num(1), delta), RoundingAt(delta, r))
    ELSE Sub(Int2Num(1), delta)

-----------------------------------------------------------------------------
(***************************************************************************)
(* BinomialOptionPricing.run, statement by statement                       *)
(***************************************************************************)
Init ==
    /\ rounding \in Roundings
    /\ \E p \in ValidInputs : self = Construct(p) /\ params0 = p
    /\ loc = NoFrame
    /\ option_prices = << >>
    /\ j = 0 /\ i = 0
    /\ pc = "idle"
    /\ err = NoError
    /\ calls = 0
    /\ first = NoOutputs
    /\ grid = << >>
    /\ filled = {}

\* binomial_model.run(): a new frame, lines 21-26
Invoke ==
    /\ pc \in {"idle", "done", "raised"}
    /\ calls < MaxCalls
    /\ calls' = calls + 1
    /\ loc' = Frame(self)
    /\ option_prices' = << >>
    /\ j' = 0 /\ i' = 0
    /\ err' = NoError
    /\ pc' = "dt"
    /\ UNCHANGED <<self, params0, first, grid, filled, rounding>>

\* dt written back to the attribute: self.time_to_maturity = time_to_maturity / steps
ComputeDtInPlace ==
    /\ pc = "dt"
    /\ IF loc.steps = 0
       THEN /\ err' = Raise("ZeroDivisionError", 29)
            /\ pc' = "raised"
            /\ UNCHANGED <<loc, self>>
       ELSE /\ loc' = [loc EXCEPT !.dt = TimeStep(loc.time_to_maturity, loc.steps)]
            /\ self' = [self EXCEPT !.time_to_maturity =
                                        TimeStep(loc.time_to_maturity, loc.steps)]
            /\ pc' = "factors"
            /\ err' = err
    /\ UNCHANGED <<option_prices, j, i, calls, params0, first, grid, filled, rounding>>

\* line 29: Python's division raises on steps = 0
ComputeDt ==
    /\ pc = "dt"
    /\ IF loc.steps = 0
       THEN /\ err' = Raise("ZeroDivisionError", 29)
            /\ pc' = "raised"
            /\ loc' = loc
       ELSE /\ loc' = [loc EXCEPT !.dt = TimeStep(loc.time_to_maturity, loc.steps)]
            /\ pc' = "factors"
            /\ err' = err
    /\ UNCHANGED <<self, option_prices, j, i, calls, params0, first, grid, filled, rounding>>

\* lines 30-32
ComputeFactors ==
    /\ pc = "factors"
    /\ LET u == UpFactor(loc.volatility, loc.dt)
           d == DownFactor(u)
       IN  loc' = [loc EXCEPT !.u = u, !.d = d,
                              !.q = RiskNeutral(loc.interest_rate, loc.dt, u, d)]
    /\ pc' = "call_init"
    /\ UNCHANGED <<self, option_prices, j, i, err, calls, params0, first, grid, filled, rounding>>

\* lines 35-37: np.zeros raises ValueError on a negative length
CallInit ==
    /\ pc = "call_init"
    /\ IF loc.steps + 1 < 0
       THEN /\ err' = Raise("ValueError", 35)
            /\ pc' = "raised"
            /\ UNCHANGED <<loc, option_prices, j, i>>
       ELSE /\ option_prices' = FillCall(Zeros(loc.steps + 1), loc)
            /\ loc' = [loc EXCEPT !.allocs = @ + 1]
            /\ j' = loc.steps - 1 /\ i' = 0
            /\ pc' = "call_loop"
            /\ err' = err
    /\ UNCHANGED <<self, calls, params0, first, grid, filled, rounding>>

\* the position after one pass of the inner loop body at (jj, ii)
NextJ(jj, ii) == IF ii = jj THEN jj - 1 ELSE jj
NextI(jj, ii) == IF ii = jj THEN 0 ELSE ii + 1

\* lines 40-42: one execution of the inner loop's body
CallStep ==
    /\ pc = "call_loop"
    /\ j >= 0
    /\ option_prices' = InductionStep(option_prices, loc, i)
    /\ j' = NextJ(j, i) /\ i' = NextI(j, i)
    /\ UNCHANGED <<self, loc, pc, err, calls, params0, first, grid, filled, rounding>>

\* line 44: the loops are over; reading index 0 of an empty array raises IndexError
CallPrice ==
    /\ pc = "call_loop"
    /\ j < 0
    /\ IF Len(option_prices) < 1
       THEN /\ err' = Raise("IndexError", 44)
            /\ pc' = "raised"
            /\ loc' = loc
       ELSE /\ loc' = [loc EXCEPT !.call_price = At(option_prices, 0)]
            /\ pc' = "put_init"
            /\ err' = err
    /\ UNCHANGED <<self, option_prices, j, i, calls, params0, first, grid, filled, rounding>>

\* lines 47-49
PutInit ==
    /\ pc = "put_init"
    /\ option_prices' = FillPut(Zeros(loc.steps + 1), loc)
    /\ loc' = [loc EXCEPT !.allocs = @ + 1]
    /\ j' = loc.steps - 1 /\ i' = 0
    /\ pc' = "put_loop"
    /\ UNCHANGED <<self, err, calls, params0, first, grid, filled, rounding>>

\* lines 52-54
PutStep ==
    /\ pc = "put_loop"
    /\ j >= 0
    /\ option_prices' = InductionStep(option_prices, loc, i)
    /\ j' = NextJ(j, i) /\ i' = NextI(j, i)
    /\ UNCHANGED <<self, loc, pc, err, calls, params0, first, grid, filled, rounding>>

\* line 56
PutPrice ==
    /\ pc = "put_loop"
    /\ j < 0
    /\ loc' = [loc EXCEPT !.put_price = At(option_prices, 0)]
    /\ pc' = "assign_prices"
    /\ UNCHANGED <<self, option_prices, j, i, err, calls, params0, first, grid, filled, rounding>>

\* lines 58-59
AssignPrices ==
    /\ pc = "assign_prices"
    /\ self' = [self EXCEPT !.call_price = loc.call_price, !.put_price = loc.put_price]
    /\ pc' = "greeks"
    /\ UNCHANGED <<loc, option_prices, j, i, err, calls, params0, first, grid, filled, rounding>>

\* lines 63-64: index 1 and index 2 of the put pass's array
ComputeGreeks ==
    /\ pc = "greeks"
    /\ IF Len(option_prices) < 2
       THEN /\ err' = Raise("IndexError", 63)
            /\ pc' = "raised"
            /\ loc' = loc
       ELSE IF Len(option_prices) < 3
       THEN /\ err' = Raise("IndexError", 64)
            /\ pc' = "raised"
            /\ loc' = [loc EXCEPT !.delta = Delta(option_prices, loc)]
       ELSE /\ loc' = [loc EXCEPT !.delta = Delta(option_prices, loc),
                                  !.gamma = Gamma(option_prices, loc)]
            /\ pc' = "assign_greeks"
            /\ err' = err
    /\ UNCHANGED <<self, option_prices, j, i, calls, params0, first, grid, filled, rounding>>

\* lines 66-69, and the return
AssignGreeks ==
    /\ pc = "assign_greeks"
    /\ self' = [self EXCEPT !.call_delta = loc.delta,
                            !.put_delta = PutDelta(loc.delta, rounding),
                            !.call_gamma = loc.gamma,
                            !.put_gamma = loc.gamma]
    /\ first' = IF first = NoOutputs THEN OutputsOf(self') ELSE first
    /\ pc' = "done"
    /\ UNCHANGED <<loc, option_prices, j, i, err, calls, params0, grid, filled, rounding>>

Next ==
    \/ Invoke
    \/ ComputeDt
    \/ ComputeFactors
    \/ CallInit
    \/ CallStep
    \/ CallPrice
    \/ PutInit
    \/ PutStep
    \/ PutPrice
    \/ AssignPrices
    \/ ComputeGreeks
    \/ AssignGreeks

Spec == Init /\ [][Next]_vars

-----------------------------------------------------------------------------
(***************************************************************************)
(* BinomialOptionPricing.calculate_prices (the app's copy of run) as a     *)
(* function of the object: the exception it raises, or the six attributes  *)
(* it assigns at its end and the array the Greeks were read from.          *)
(***************************************************************************)
\* the two nested loops of a pass, from position (jj, ii) to their end
RECURSIVE Backward(_, _, _, _)
Backward(arr, f, jj, ii) ==
    IF jj < 0 THEN arr
    ELSE CHOOSE r \in { Backward(next, f, NextJ(jj, ii), NextI(jj, ii)) :
                        next \in {InductionStep(arr, f, ii)} } : TRUE

\* lines 79-90: the locals before the first pass
Factors(o) ==
    LET dt == TimeStep(o.time_to_maturity, o.steps)
        u == UpFactor(o.volatility, dt)
        d == DownFactor(u)
    IN  [Frame(o) EXCEPT !.dt = dt, !.u = u, !.d = d,
                         !.q = RiskNeutral(o.interest_rate, dt, u, d)]

\* lines 93-100 and 105-112: a pass, from np.zeros to the end of its loops
Passes(o, kind) ==
    CHOOSE r \in
      { Backward(IF kind = "call" THEN FillCall(Zeros(o.steps + 1), f)
                 ELSE FillPut(Zeros(o.steps + 1), f),
                 f, o.steps - 1, 0) : f \in {Factors(o)} } : TRUE

Raised(t, l) == [err |-> Raise(t, l), out |-> NoOutputs]

CalculatePrices(o) ==
    IF o.steps = 0 THEN Raised("ZeroDivisionError", 87)
    ELSE IF o.steps + 1 < 0 THEN Raised("ValueError", 93)
    ELSE
      CHOOSE r \in
        { IF Len(calls_) < 1 THEN Raised("IndexError", 102)
          ELSE IF Len(puts) < 2 THEN Raised("IndexError", 118)
          ELSE IF Len(puts) < 3 THEN Raised("IndexError", 119)
          ELSE [err |-> NoError,
                out |-> [call_price |-> At(calls_, 0),
                         put_price |-> At(puts, 0),
                         call_delta |-> Delta(puts, f),
                         put_delta |-> PutDelta(Delta(puts, f), rounding),
                         call_gamma |-> Gamma(puts, f),
                         put_gamma |-> Gamma(puts, f)]] :
          f \in {Factors(o)},
          calls_ \in {Passes(o, "call")},
          puts \in {Passes(o, "put")} } : TRUE

-----------------------------------------------------------------------------
(***************************************************************************)
(* plot_heatmap(binomial_model, spot_range, vol_range, strike)             *)
(*                                                                         *)
(* The page computes binomial_model first (app lines 206-207) and then     *)
(* calls plot_heatmap twice (lines 243 and 248).  The cells do not depend  *)
(* on one another; the model computes them in any order, of which the      *)
(* code's row-major order is one.                                          *)
(***************************************************************************)
MaxVols == 2
MaxSpots == 2

\* the page calls plot_heatmap twice, the second time at app line 248
HeatmapCalls == 2

SweepSpots == {80, 120}
SweepVols == { v \in Vols : LnPos(v) }

\* the sequences without repetition of 1..m elements of S
Ranges(S, m) ==
    UNION { { r \in [1..len -> S] : \A a, b \in 1..len : r[a] = r[b] => a = b } :
            len \in 1..m }

\* the base models of the page: one strike, spot and volatility; the sweep reads
\* only time_to_maturity, interest_rate and steps of it
BaseModels ==
    { p \in ValidInputs : /\ p.strike = Int2Num(100)
                          /\ p.current_price = Int2Num(100)
                          /\ p.volatility = Ln(2, 1, 2)
                          /\ p.interest_rate = Ln(3, 2, 4)
                          /\ CalculatePrices(Construct(p)).err = NoError }

\* the temporary object built with the base model's strike, not the argument
TempModelBaseStrike(base, g, a, b) ==
    Construct([time_to_maturity |-> base.time_to_maturity,
               strike |-> base.strike,
               current_price |-> g.spot_range[b],
               volatility |-> g.vol_range[a],
               interest_rate |-> base.interest_rate,
               steps |-> base.steps])

\* lines 162-169: the temporary object of cell (a, b)
TempModel(base, g, a, b) ==
    Construct([time_to_maturity |-> base.time_to_maturity,
               strike |-> g.strike,
               current_price |-> g.spot_range[b],
               volatility |-> g.vol_range[a],
               interest_rate |-> base.interest_rate,
               steps |-> base.steps])

Cells(g) == (1..Len(g.vol_range)) \X (1..Len(g.spot_range))

\* np.zeros((len(vol_range), len(spot_range)))
Zeros2(g) == [c \in Cells(g) |-> Int2Num(0)]

InitSweep ==
    /\ rounding \in Roundings
    /\ \E p \in BaseModels :
          /\ self = [Construct(p) EXCEPT
                        !.call_price = CalculatePrices(Construct(p)).out.call_price,
                        !.put_price = CalculatePrices(Construct(p)).out.put_price,
                        !.call_delta = CalculatePrices(Construct(p)).out.call_delta,
                        !.put_delta = CalculatePrices(Construct(p)).out.put_delta,
                        !.call_gamma = CalculatePrices(Construct(p)).out.call_gamma,
                        !.put_gamma = CalculatePrices(Construct(p)).out.put_gamma]
          /\ params0 = p
    /\ first = OutputsOf(self)
    /\ loc = NoFrame
    /\ option_prices = << >>
    /\ j = 0 /\ i = 0
    /\ pc = "page"
    /\ err = NoError
    /\ calls = 0
    /\ \E vr \in Ranges(SweepVols, MaxVols), sr \in Ranges(SweepSpots, MaxSpots),
          K \in Strikes :
          grid = [vol_range |-> vr,
                  spot_range |-> [b \in DOMAIN sr |-> Int2Num(sr[b])],
                  strike |-> Int2Num(K),
                  call_prices |-> << >>, put_prices |-> << >>]
    /\ filled = {}

\* lines 156-158
HeatmapEnter ==
    /\ pc = "page"
    /\ calls < HeatmapCalls
    /\ calls' = calls + 1
    /\ grid' = [grid EXCEPT !.call_prices = Zeros2(grid), !.put_prices = Zeros2(grid)]
    /\ filled' = {}
    /\ pc' = "heatmap"
    /\ UNCHANGED <<self, loc, option_prices, j, i, err, params0, first, rounding>>

\* lines 162-172: one cell
HeatmapCell(a, b) ==
    /\ pc = "heatmap"
    /\ <<a, b>> \in Cells(grid) \ filled
    /\ \E r \in {CalculatePrices(TempModel(self, grid, a, b))} :
           IF r.err # NoError
           THEN /\ err' = r.err
                /\ pc' = "raised"
                /\ UNCHANGED <<grid, filled, rounding>>
           ELSE /\ grid' = [grid EXCEPT !.call_prices[<<a, b>>] = r.out.call_price,
                                        !.put_prices[<<a, b>>] = r.out.put_price]
                /\ filled' = filled \cup {<<a, b>>}
                /\ UNCHANGED <<err, pc>>
    /\ UNCHANGED <<self, loc, option_prices, j, i, calls, params0, first, rounding>>

\* lines 174-188: the loops are over; the figures are drawn and returned
HeatmapReturn ==
    /\ pc = "heatmap"
    /\ filled = Cells(grid)
    /\ pc' = "page"
    /\ UNCHANGED <<self, loc, option_prices, j, i, err, calls, params0, first, grid, filled, rounding>>

NextSweep ==
    \/ HeatmapEnter
    \/ \E a \in 1..MaxVols, b \in 1..MaxSpots : HeatmapCell(a, b)
    \/ HeatmapReturn

SpecSweep == InitSweep /\ [][NextSweep]_vars

-----------------------------------------------------------------------------
(***************************************************************************)
(* Vocabulary of the claims                                                *)
(***************************************************************************)
Zero == Int2Num(0)
One == Int2Num(1)

\* time_to_maturity > 0, strike > 0, current_price > 0, volatility > 0, steps >= 1
ValidParameters(p) ==
    /\ Gt(p.time_to_maturity, Zero)
    /\ Gt(p.strike, Zero)
    /\ Gt(p.current_price, Zero)
    /\ LnPos(p.volatility)
    /\ p.steps >= 1

AllOutputsSet(o) ==
    \A fld \in DOMAIN NoOutputs : OutputsOf(o)[fld] # Unset

\* The level-by-level induction with a fresh array per level: the values of
\* the lvl+1 nodes of level lvl (node k has k up-moves), from the terminal
\* payoffs of level steps.
RECURSIVE LevelValues(_, _, _)
LevelValues(f, kind, lvl) ==
    IF lvl >= f.steps
    THEN [k \in 1..(f.steps + 1) |->
            IF kind = "call" THEN CallPayoff(f, k - 1) ELSE PutPayoff(f, k - 1)]
    ELSE LET next == LevelValues(f, kind, lvl + 1)
         IN  [k \in 1..(lvl + 1) |->
                Mul(Discount(f.interest_rate, f.dt),
                    Add(Mul(f.q, next[k + 1]), Mul(Sub(One, f.q), next[k])))]

\* the value of the node of level lvl with k up-moves
Node(f, kind, lvl, k) == LevelValues(f, kind, lvl)[k + 1]

PassOf(p) == IF p = "call_loop" THEN "call" ELSE "put"

\* the real value of a number: the number without its rounding residue
Ideal(x) == WithRes(x, 0)

-----------------------------------------------------------------------------
(***************************************************************************)
(* C1: run() is total on valid parameters with steps >= 1: it raises       *)
(* nothing and, once it has returned, all six outputs are set.             *)
(***************************************************************************)
C1_Total ==
    ValidParameters(params0) =>
        /\ err = NoError
        /\ pc = "done" => AllOutputsSet(self)

(***************************************************************************)
(* C2 as stated: on valid parameters the returned call_price and put_price *)
(* are >= 0, whatever the risk-neutral probability q is.                   *)
(***************************************************************************)
C2_NonNegative ==
    (pc = "done" /\ ValidParameters(params0)) =>
        /\ Ge(self.call_price, Zero)
        /\ Ge(self.put_price, Zero)

(***************************************************************************)
(* C2 as amended: on valid parameters for which the computed q lies in     *)
(* [0, 1], the returned call_price and put_price are >= 0.                 *)
(***************************************************************************)
C2_NonNegativeWhenArbitrageFree ==
    (pc = "done" /\ ValidParameters(params0) /\ Ge(loc.q, Zero) /\ Ge(One, loc.q)) =>
        /\ Ge(self.call_price, Zero)
        /\ Ge(self.put_price, Zero)

C2_Witness ==
    /\ pc = "done" /\ ValidParameters(params0)
    /\ Gt(loc.q, Zero) /\ Gt(One, loc.q)
    /\ Gt(self.call_price, Zero) /\ Gt(self.put_price, Zero)

(***************************************************************************)
(* C3: with volatility = 0 run() does not complete (it raises instead of   *)
(* returning nan outputs).                                                 *)
(***************************************************************************)
C3_ZeroVolatilityRaises ==
    LnZero(params0.volatility) => pc # "done"

(***************************************************************************)
(* C4: with steps < 1 run() never completes, assigns no result attribute   *)
(* and has built no array when it raises.                                  *)
(***************************************************************************)
C4_StepsRejected ==
    params0.steps < 1 =>
        /\ pc # "done"
        /\ OutputsOf(self) = NoOutputs
        /\ loc.allocs = 0

(***************************************************************************)
(* C5: put-call parity on the lattice: on valid parameters with            *)
(* steps >= 2, call_price - put_price = current_price - strike *           *)
(* exp(-interest_rate * time_to_maturity) = current_price - strike *       *)
(* D^steps, for every q.                                                   *)
(***************************************************************************)
C5_Parity ==
    (pc = "done" /\ ValidParameters(params0) /\ self.steps >= 2) =>
        /\ Sub(self.call_price, self.put_price) =
              Sub(self.current_price,
                  Mul(self.strike,
                      Exp(Scale(Neg(self.interest_rate), self.time_to_maturity))))
        /\ Sub(self.call_price, self.put_price) =
              Sub(self.current_price,
                  Mul(self.strike,
                      Pow(Discount(self.interest_rate, loc.dt), self.steps)))

C5_Witness ==
    /\ pc = "done" /\ ValidParameters(params0) /\ self.steps >= 3
    /\ Gt(loc.q, One)
    /\ ~LnZero(self.interest_rate)
    /\ IsRat(self.call_price) /\ IsRat(self.put_price)

(***************************************************************************)
(* C6 as stated, on the runs that complete with finite Greeks: put_delta + *)
(* call_delta == 1 and call_gamma == put_gamma (Python's ==, on float64).  *)
(***************************************************************************)
C6_DeltaGammaIdentities ==
    (pc = "done" /\ IsRat(self.call_delta) /\ IsRat(self.call_gamma)) =>
        /\ Eq(Add(self.put_delta, self.call_delta), One)
        /\ Eq(self.call_gamma, self.put_gamma)

(***************************************************************************)
(* C6 as amended: whenever run() completes, call_gamma and put_gamma are   *)
(* one and the same value (nan included) and put_delta is 1 - call_delta   *)
(* rounded once to a float64 (nan when call_delta is nan); so, when the    *)
(* Greeks are finite, put_delta + call_delta is 1 up to that rounding      *)
(* (half a unit in the last place of put_delta, nothing when put_delta is  *)
(* below 1), without being the float64 1.0 in every case.                  *)
(***************************************************************************)
C6_DeltaGammaUpToRounding ==
    pc = "done" =>
        /\ self.call_gamma = self.put_gamma
        /\ Ideal(self.put_delta) = Sub(One, self.call_delta)
        /\ IsRat(self.put_delta) => self.put_delta.e \in {0, rounding}
        /\ IsRat(self.call_delta) =>
              /\ Ideal(Add(self.put_delta, self.call_delta)) = One
              /\ self.put_delta.n # 0 =>
                    Abs(Add(self.put_delta, self.call_delta).e) <=
                        (IF Exponent(self.put_delta) >= 0
                         THEN 2^(Exponent(self.put_delta) + 1) ELSE 0)

C6_Witness ==
    /\ pc = "done" /\ ValidParameters(params0)
    /\ IsRat(self.call_delta) /\ IsRat(self.call_gamma) /\ self.call_gamma.n # 0
    /\ Gt(One, Add(self.put_delta, self.call_delta))
    /\ Eq(self.call_gamma, self.put_gamma)

(***************************************************************************)
(* C7: the two grids of plot_heatmap have shape len(vol_range) x           *)
(* len(spot_range); every computed cell [a][b] holds the prices of a       *)
(* direct pricing call with volatility vol_range[a], current_price         *)
(* spot_range[b], the given strike and the base model's time_to_maturity,  *)
(* interest_rate and steps, in whatever order the cells are computed (the  *)
(* cells not yet computed hold 0); the base model is left unchanged.       *)
(***************************************************************************)
Direct(a, b) ==
    CalculatePrices(Construct([time_to_maturity |-> params0.time_to_maturity,
                               strike |-> grid.strike,
                               current_price |-> grid.spot_range[b],
                               volatility |-> grid.vol_range[a],
                               interest_rate |-> params0.interest_rate,
                               steps |-> params0.steps])).out

C7_Sweep ==
    /\ InputsOf(self) = params0
    /\ OutputsOf(self) = first
    /\ err = NoError
    /\ grid.call_prices # << >> =>
        /\ DOMAIN grid.call_prices = (1..Len(grid.vol_range)) \X (1..Len(grid.spot_range))
        /\ DOMAIN grid.put_prices = (1..Len(grid.vol_range)) \X (1..Len(grid.spot_range))
        /\ \A c \in DOMAIN grid.call_prices :
              IF c \in filled
              THEN \E r \in {Direct(c[1], c[2])} :
                      /\ grid.call_prices[c] = r.call_price
                      /\ grid.put_prices[c] = r.put_price
              ELSE /\ grid.call_prices[c] = Zero
                   /\ grid.put_prices[c] = Zero

C7_Witness ==
    /\ pc = "page" /\ calls = HeatmapCalls
    /\ filled = Cells(grid)
    /\ Len(grid.vol_range) = 1 /\ Len(grid.spot_range) = 2
    /\ grid.strike # self.strike
    /\ self.steps >= 3

(***************************************************************************)
(* C8: run() never changes the six inputs; the put pass starts from the    *)
(* put payoffs alone; and every completed run() on the object leaves the   *)
(* outputs of the first one, which are those of calculate_prices on a      *)
(* fresh object with the same parameters.                                  *)
(***************************************************************************)
C8_Deterministic ==
    /\ InputsOf(self) = params0
    /\ (pc = "put_loop" /\ j = loc.steps - 1 /\ i = 0) =>
          option_prices = [k \in 1..(loc.steps + 1) |-> PutPayoff(loc, k - 1)]
    /\ pc = "done" =>
          /\ OutputsOf(self) = first
          /\ OutputsOf(self) = CalculatePrices(Construct(params0)).out

C8_Witness ==
    /\ pc = "done" /\ calls = 2 /\ self.steps >= 2
    /\ IsRat(self.call_gamma)

(***************************************************************************)
(* C9: the in-place induction is the level-by-level induction: while a     *)
(* pass is at (j, i), entries 0..i-1 hold level j and entries i..j+1 hold  *)
(* level j+1 (not yet overwritten), the index i+1 read is inside the       *)
(* array, and after the loops entry 0 holds the level-0 value.             *)
(***************************************************************************)
C9_InPlaceIsLevelwise ==
    /\ (pc \in {"call_loop", "put_loop"} /\ j >= 0) =>
          /\ i + 1 <= loc.steps
          /\ i + 1 < Len(option_prices)
          /\ \A k \in 0..(j + 1) :
                At(option_prices, k) =
                    IF k < i THEN Node(loc, PassOf(pc), j, k)
                    ELSE Node(loc, PassOf(pc), j + 1, k)
    /\ (pc \in {"call_loop", "put_loop"} /\ j < 0 /\ loc.steps >= 1) =>
          At(option_prices, 0) = Node(loc, PassOf(pc), 0, 0)
    /\ loc.call_price # Unset => loc.call_price = Node(loc, "call", 0, 0)
    /\ loc.put_price # Unset => loc.put_price = Node(loc, "put", 0, 0)

C9_Witness ==
    /\ pc = "put_loop" /\ loc.steps = 3 /\ j = 1 /\ i = 1
    /\ IsRat(At(option_prices, 0)) /\ At(option_prices, 0).n # 0
    /\ At(option_prices, 0) # At(option_prices, 1)

(***************************************************************************)
(* C10: the Greeks are read from the put pass's array after its induction, *)
(* where entry k holds the put value of the level-k node with k up-moves:  *)
(* delta = (P(1,1) - P(0,0)) / spread, gamma = (P(2,2) - 2 P(1,1) +        *)
(* P(0,0)) / (0.5 spread^2), P(0,0) = put_price.                           *)
(***************************************************************************)
C10_GreeksFromDiagonal ==
    (pc \in {"assign_greeks", "done"} /\ loc.steps >= 2) =>
        /\ \A k \in 0..loc.steps : At(option_prices, k) = Node(loc, "put", k, k)
        /\ Node(loc, "put", 0, 0) = loc.put_price
        /\ loc.delta =
              Div(Sub(Node(loc, "put", 1, 1), Node(loc, "put", 0, 0)), Spread(loc))
        /\ loc.gamma =
              Div(Add(Sub(Node(loc, "put", 2, 2),
                          Mul(Int2Num(2), Node(loc, "put", 1, 1))),
                      Node(loc, "put", 0, 0)),
                  Mul(Rat(1, 2), Pow(Spread(loc), 2)))
        /\ pc = "done" => /\ self.call_delta = loc.delta
                          /\ self.call_gamma = loc.gamma

C10_Witness ==
    /\ pc = "done" /\ loc.steps >= 3
    /\ IsRat(self.call_gamma) /\ self.call_gamma.n # 0
    /\ Node(loc, "put", 1, 1) # Node(loc, "put", 2, 1)
    /\ loc.call_price # loc.put_price

====
